---- MODULE Spec2Model ----
(***************************************************************************)
(* Model of the command line sync driver, src/src/cmd/cmd.cpp:             *)
(*   main()  : credential resolution, capability/identity bootstrap,       *)
(*             then sync(ctx, 0)                                           *)
(*   sync()  : selective-sync list parsing and reconciliation, exclude     *)
(*             list assembly, one engine pass, follow-up restart           *)
(* Strings whose characters matter (paths, file contents) are sequences    *)
(* of one-character strings.                                               *)
(***************************************************************************)
EXTENDS Integers, Sequences, FiniteSets, Bags, TLC

\* ------------------------------------------------------------------ bounds
MaxRetry == 2
MaxNegRetry == 1
MaxLines == 2
MaxOld == 2
MaxReconRetry == 1
MaxListLines == 2
MaxArgs == 4
MaxProxyLen == 6
MaxRunArgs == 4

\* --------------------------------------------------------- program constants
EXIT_SUCCESS == 0
EXIT_FAILURE == 1
DefaultRestartTimes == 3

Unset == 0 - 1

NoFollowUpSync == "NoFollowUpSync"
FollowUp == "FollowUp"

ListFile == "unsynced.lst"
UserExcludeFile == "user_exclude.lst"
SystemExcludeFile == "sync-exclude.lst"

\* ------------------------------------------------------------------ helpers
Min(a, b) == IF a < b THEN a ELSE b

SeqToSet(s) == {s[i] : i \in DOMAIN s}

BoundedSeq(S, n) == UNION {[1..m -> S] : m \in 0..n}

RECURSIVE Concat(_)
Concat(ss) == IF ss = <<>> THEN <<>> ELSE Head(ss) \o Concat(Tail(ss))

\* ------------------------------------------------- selective sync list file
Slash == "/"
Hash == "#"
Newline == "\n"

IsSpace(ch) == ch \in {" ", "\n", "\t", "\r"}

\* QString::split(sep): empty parts are kept
RECURSIVE Split(_, _)
Split(s, sep) ==
    IF \A i \in DOMAIN s : s[i] # sep
    THEN <<s>>
    ELSE LET i == CHOOSE j \in DOMAIN s : s[j] = sep /\ \A h \in 1..(j - 1) : s[h] # sep
         IN  <<SubSeq(s, 1, i - 1)>> \o Split(SubSeq(s, i + 1, Len(s)), sep)

\* QRegExp("\\S+") is contained in the line
ContainsNonSpace(line) == \E i \in DOMAIN line : ~IsSpace(line[i])

CommentsKept(line) == TRUE

\* QRegExp("^[^#]") is contained in the line
StartsWithNonHash(line) == Len(line) >= 1 /\ line[1] # Hash

endsWith(s, ch) == Len(s) >= 1 /\ s[Len(s)] = ch

AppendSlashAlways(s) == Append(s, Slash)

\* if (!selectiveSyncList.at(i).endsWith('/')) selectiveSyncList[i].append('/')
AppendSlash(s) == IF ~endsWith(s, Slash) THEN Append(s, Slash) ELSE s

ParseUnsyncedFolders(content) ==
    LET kept == SelectSeq(SelectSeq(Split(content, Newline), ContainsNonSpace),
                          StartsWithNonHash)
    IN  [i \in DOMAIN kept |-> AppendSlash(kept[i])]

\* ------------------------------------------------------ inputs of the model
PathA == <<"A", "/">>
PathB == <<"B", "/">>
PathC == <<"C", "/">>
PathSet == {PathA, PathB, PathC}

LineSet == { <<"#", "A">>, <<"A">>, <<"A", "/">>, <<"B", "/">>, <<"C">> }

FileOf(lines) == Concat([i \in DOMAIN lines |-> Append(lines[i], Newline)])

FileContents(n) == {FileOf(ls) : ls \in BoundedSeq(LineSet, n)}

PathIndex(p) == IF p = PathA THEN 1 ELSE IF p = PathB THEN 2 ELSE 3

\* the journal's list is only ever used as a set: one list for each set of paths
OldLists(n) ==
    {s \in BoundedSeq(PathSet, n) :
        \A i, j \in DOMAIN s : i < j => PathIndex(s[i]) < PathIndex(s[j])}

ExampleFile == FileOf(<< <<"B", "/">>, <<"C">> >>)
ExampleOld == <<PathA, PathB>>

RetryLimits == ((0 - MaxNegRetry)..MaxRetry) \cup {DefaultRestartTimes}
MaxConverge == MaxRetry + 3

\* lines a list file may hold: empty, blank, comments, paths with and without
\* the separator
ListLineSet == { <<>>, <<" ">>, <<"\r">>, <<"#">>, <<"#", "A">>, <<"#", "/">>,
                 <<" ", "#">>, <<"A">>, <<"A", "/">>, <<"/">>, <<"/", "/">>,
                 <<"A", "/", " ">> }

\* a file whose last line has no line break
Unterminated(content) ==
    IF content = <<>> THEN content ELSE SubSeq(content, 1, Len(content) - 1)

ListFileContents(n) ==
    LET terminated == {FileOf(ls) : ls \in BoundedSeq(ListLineSet, n)}
    IN  terminated \cup {Unterminated(c) : c \in terminated}

\* "# comment\n\nDocuments\nShared/\n"
DocumentsFile ==
    <<"#", " ", "c", "o", "m", "m", "e", "n", "t", "\n", "\n",
      "D", "o", "c", "u", "m", "e", "n", "t", "s", "\n",
      "S", "h", "a", "r", "e", "d", "/", "\n">>
\* -------------------------------------------------------------------- state
VARIABLES
    pc,                  \* where main()/sync() stands
    options,             \* ctx.options: restartTimes, exclude, unsyncedfolders,
                         \* uplimit, downlimit
    fileContent,         \* contents of the file options.unsyncedfolders names
    systemExcludeExists, \* QFile::exists(systemExcludeFile)
    convergeAt,          \* the engine signals no follow-up after this pass
    bootstrap,           \* the two JsonApiJobs: "idle", "inflight", "ok", "error"
    inflight,            \* asynchronous operations started and not yet finished
    frames,              \* call stack of sync(): restartCount, resultCode
    selectiveSyncList,   \* local of the running sync()
    blackList,           \* journal: persisted SelectiveSyncBlackList
    scheduledCalls,      \* bag of paths given to schedulePathForRemoteDiscovery
                         \* by the running sync()
    excludeFiles,        \* engine.excludedFiles(): registered paths
    anotherSyncNeeded,   \* engine.isAnotherSyncNeeded()
    passes,              \* number of startSync invocations so far
    passResults,         \* results of the finished(bool) signals so far
    retval,              \* value being returned up the sync() frames
    exitStatus,          \* exit status of the process
    listFile,            \* this sync(): "none", "opened", "failed"
    fixup,               \* this sync(): "none", "dbfail", "readfail", "read"
    oldBlackList,        \* journal blacklist when this sync() was entered
    excludesLoaded,      \* this sync(): "none", "loaded", "failed"
    networkLimits,       \* this sync(): <<up, down>> given to setNetworkLimits
    listReads,           \* number of reads of the list file so far
    fixupCalls           \* number of selectiveSyncFixup calls so far

VARIABLES
    credPc,              \* where the credential resolution stands
    urlUser, urlPassword,
    optUser, optPassword,
    useNetrc, interactive,
    netrcPair,           \* <<parsed, login, password>> of the netrc lookup
    typedUser, typedPassword,
    user, password

VARIABLES
    args,                \* parseOptions: its copy of the argument list
    it,                  \* parseOptions: index of the argument it.next() gives
    parsePc,             \* where parseOptions stands
    cmdOptions,          \* main's CmdOptions, written by parseOptions
    printed,             \* "none", "usage", "version", "diagnostic"
    parseStatus,         \* exit status of a process ended by parseOptions
    applicationProxy     \* QNetworkProxy::applicationProxy(): type, host, port

\* what the run is given and never writes
inputVars == <<options, fileContent, systemExcludeExists, convergeAt>>

\* the locals of the running sync() and what it did so far
syncLocals == <<selectiveSyncList, scheduledCalls, excludeFiles, listFile, fixup,
                oldBlackList, excludesLoaded, networkLimits>>

engineVars == <<anotherSyncNeeded, passes, passResults>>

counters == <<listReads, fixupCalls>>

driverVars == <<pc, inputVars, bootstrap, inflight, frames, syncLocals, blackList,
                engineVars, retval, exitStatus, counters>>

credVars == <<credPc, urlUser, urlPassword, optUser, optPassword, useNetrc,
              interactive, netrcPair, typedUser, typedPassword, user, password>>

parseVars == <<args, it, parsePc, cmdOptions, printed, parseStatus>>

setupVars == <<parseVars, applicationProxy>>

vars == <<driverVars, credVars, setupVars>>

top == frames[Len(frames)]

\* ------------------------------------------------------------- code pieces
CapabilitiesJob == <<"capabilities", 0>>
UserJob == <<"user", 0>>
SyncPass(n) == <<"sync", n>>

JobStillFlying(flying, job) == flying

\* loop.exec() and qApp->exec() return when the operation has signalled its end
JobFinished(flying, job) == flying \ {job}

ConnectionFailureIgnored(networkError) == FALSE

\* job->reply()->error() != QNetworkReply::NoError
ConnectionFailed(networkError) == networkError

ReloadFailureIgnored(loaded) == FALSE

ReloadAlwaysFatal(loaded) == TRUE

\* if (!engine.excludedFiles().reloadExcludeFiles()) qFatal(...)
ReloadFailureFatal(loaded) == ~loaded

\* finished(bool) handler: qApp->exit(result ? EXIT_SUCCESS : EXIT_FAILURE)
ExitCode(result) == IF result THEN EXIT_SUCCESS ELSE EXIT_FAILURE

FollowUpAlways(signal) == TRUE

FollowUpOrFailure(signal) == signal # NoFollowUpSync \/ top.resultCode = EXIT_FAILURE

\* engine.isAnotherSyncNeeded() != NoFollowUpSync
FollowUpRequired(signal) == signal # NoFollowUpSync

RestartAllowedAlways(restartCount, restartTimes) == TRUE

RestartAllowedInclusive(restartCount, restartTimes) == restartCount <= restartTimes

\* restartCount < ctx.options.restartTimes
RestartAllowed(restartCount, restartTimes) == restartCount < restartTimes

ReturnOwnResultCode(calleeValue, resultCode) == resultCode

\* return sync(ctx, restartCount): the caller hands on the callee's value
ReturnOfRestart(calleeValue, resultCode) == calleeValue

ListFileGivenOnFirstCall(unsyncedfolders) == unsyncedfolders # "" /\ Len(frames) = 1

\* !ctx.options.unsyncedfolders.isEmpty()
ListFileGiven(unsyncedfolders) == unsyncedfolders # ""

FixupAlways(list) == TRUE

FixupNever(list) == FALSE

FixupWhenFileOpened(list) == listFile = "opened"

\* !selectiveSyncList.empty()
FixupWanted(list) == list # <<>>

OldListReadIgnored(ok) == TRUE

\* if (ok)
OldListRead(ok) == ok

ChangesAddedOnly(oldBlackListSet, blackListSet) == blackListSet \ oldBlackListSet

ChangesAndNewList(oldBlackListSet, blackListSet) ==
    (oldBlackListSet \ blackListSet) \cup blackListSet

\* (oldBlackListSet - blackListSet) + (blackListSet - oldBlackListSet)
Changes(oldBlackListSet, blackListSet) ==
    (oldBlackListSet \ blackListSet) \cup (blackListSet \ oldBlackListSet)

ListToPersistMerged(oldList, newList) == oldList \o newList

\* setSelectiveSyncList(SelectiveSyncBlackList, newList)
ListToPersist(oldList, newList) == newList

ExcludeFilePathsExistingOnly(exclude, systemExists) ==
    (IF exclude # "" THEN <<exclude>> ELSE <<>>)
    \o (IF systemExists THEN <<SystemExcludeFile>> ELSE <<>>)

\* the exclude list assembly: the user's file when given, and the system file
\* when it exists or no user file is given
ExcludeFilePaths(exclude, systemExists) ==
    (IF exclude # "" THEN <<exclude>> ELSE <<>>)
    \o (IF exclude = "" \/ systemExists THEN <<SystemExcludeFile>> ELSE <<>>)

\* ------------------------------------------------------------ command line
\* a QString that was never assigned
Null == <<"(null)">>

isNull(s) == s = Null
isEmpty(s) == s = Null \/ s = <<>>

startsWith(s, prefix) ==
    /\ ~isNull(s)
    /\ Len(s) >= Len(prefix)
    /\ SubSeq(s, 1, Len(prefix)) = prefix

Dash == <<"-">>

OptVersionShort == <<"-", "v">>
OptVersion == <<"-", "-", "v", "e", "r", "s", "i", "o", "n">>
OptHttpproxy == <<"-", "-", "h", "t", "t", "p", "p", "r", "o", "x", "y">>
OptSilentShort == <<"-", "s">>
OptSilent == <<"-", "-", "s", "i", "l", "e", "n", "t">>
OptTrust == <<"-", "-", "t", "r", "u", "s", "t">>
OptNetrc == <<"-", "n">>
OptHidden == <<"-", "h">>
OptNonInteractive ==
    <<"-", "-", "n", "o", "n", "-", "i", "n", "t", "e", "r", "a", "c", "t", "i", "v", "e">>
OptUserShort == <<"-", "u">>
OptUser == <<"-", "-", "u", "s", "e", "r">>
OptPasswordShort == <<"-", "p">>
OptPassword == <<"-", "-", "p", "a", "s", "s", "w", "o", "r", "d">>
OptExclude == <<"-", "-", "e", "x", "c", "l", "u", "d", "e">>
OptUnsyncedfolders ==
    <<"-", "-", "u", "n", "s", "y", "n", "c", "e", "d", "f", "o", "l", "d", "e", "r", "s">>
OptDavpath == <<"-", "-", "d", "a", "v", "p", "a", "t", "h">>
OptMaxSyncRetries ==
    <<"-", "-", "m", "a", "x", "-", "s", "y", "n", "c", "-", "r", "e", "t", "r", "i", "e", "s">>
OptUplimit == <<"-", "-", "u", "p", "l", "i", "m", "i", "t">>
OptDownlimit == <<"-", "-", "d", "o", "w", "n", "l", "i", "m", "i", "t">>
OptLogdebug == <<"-", "-", "l", "o", "g", "d", "e", "b", "u", "g">>

\* the options whose branch reads it.peekNext()
ValueOptions ==
    {OptHttpproxy, OptUserShort, OptUser, OptPasswordShort, OptPassword, OptExclude,
     OptUnsyncedfolders, OptDavpath, OptMaxSyncRetries, OptUplimit, OptDownlimit}

\* the options whose branch tests the option alone
SwitchOptions ==
    {OptSilentShort, OptSilent, OptTrust, OptNetrc, OptHidden, OptNonInteractive,
     OptLogdebug}

\* ------------------------------------------------------------------ toInt
DigitChars == <<"0", "1", "2", "3", "4", "5", "6", "7", "8", "9">>

IsDigit(ch) == \E i \in DOMAIN DigitChars : DigitChars[i] = ch

DigitValue(ch) == (CHOOSE i \in DOMAIN DigitChars : DigitChars[i] = ch) - 1

RECURSIVE DigitsValue(_)
DigitsValue(s) ==
    IF s = <<>> THEN 0 ELSE DigitsValue(SubSeq(s, 1, Len(s) - 1)) * 10 + DigitValue(s[Len(s)])

RECURSIVE Trimmed(_)
Trimmed(s) ==
    IF s = <<>> THEN s
    ELSE IF IsSpace(s[1]) THEN Trimmed(Tail(s))
    ELSE IF IsSpace(s[Len(s)]) THEN Trimmed(SubSeq(s, 1, Len(s) - 1))
    ELSE s

IntMax == 2147483647
IntMin == 0 - IntMax - 1

\* QString::toInt(&ok): blanks around the number and a sign are taken, anything
\* else or a number outside int gives ok = false and the value 0
toInt(s) ==
    LET t == IF isNull(s) THEN <<>> ELSE Trimmed(s)
        signed == t # <<>> /\ t[1] \in {"-", "+"}
        digits == IF signed THEN Tail(t) ELSE t
        wellFormed == digits # <<>> /\ \A i \in DOMAIN digits : IsDigit(digits[i])
        n == IF wellFormed
             THEN IF signed /\ t[1] = "-" THEN 0 - DigitsValue(digits)
                                          ELSE DigitsValue(digits)
             ELSE 0
        ok == wellFormed /\ n >= IntMin /\ n <= IntMax
    IN  [ok |-> ok, value |-> IF ok THEN n ELSE 0]

\* (a + b) in two's complement, for a and b that are ints
WrapAdd(a, b) ==
    IF a > 0 /\ b > IntMax - a THEN (a - IntMax - 1) + (b - IntMax - 1)
    ELSE IF a < 0 /\ b < IntMin - a THEN (a + IntMax + 1) + (b + IntMax + 1)
    ELSE a + b

\* (n * 1000) in two's complement for an int n >= 0: the 16-bit halves of n
\* are multiplied apart
WrapTimes1000NonNeg(n) ==
    LET high == ((n \div 65536) * 1000) % 65536
        signedHigh == IF high >= 32768 THEN (high - 65536) * 65536 ELSE high * 65536
    IN  WrapAdd(signedHigh, (n % 65536) * 1000)

\* the same for every int
WrapTimes1000(n) ==
    IF n >= 0 THEN WrapTimes1000NonNeg(n)
    ELSE IF n = IntMin THEN 0
    ELSE LET w == WrapTimes1000NonNeg(0 - n)
         IN  IF w = IntMin THEN w ELSE 0 - w

\* int * 1000: the product when it is an int; a signed overflow is undefined:
\* the build may leave the wrapped product or, the compiler taking the
\* overflow for impossible, another int, for which the ends and 0 stand
LimitValues(n) ==
    IF n >= IntMin \div 1000 + 1 /\ n <= IntMax \div 1000
    THEN {n * 1000}
    ELSE {WrapTimes1000(n), IntMin, IntMax, 0}

\* ------------------------------------------------------------ parseOptions
\* CmdOptions as main() fills it before parseOptions
DefaultOptions ==
    [source_dir |-> Null, target_url |-> Null, user |-> Null, password |-> Null,
     proxy |-> Null, silent |-> FALSE, trustSSL |-> FALSE, useNetrc |-> FALSE,
     interactive |-> TRUE, ignoreHiddenFiles |-> TRUE, exclude |-> Null,
     unsyncedfolders |-> Null, davPath |-> Null, restartTimes |-> DefaultRestartTimes,
     uplimit |-> 0, downlimit |-> 0]

WorkingDir == <<"/", "w", "/">>

\* QFileInfo::absoluteFilePath(): a relative path is taken from the working
\* directory
absoluteFilePath(path) == IF startsWith(path, <<Slash>>) THEN path ELSE WorkingDir \o path

\* the branches that take the next argument as the option's value
SetValue(o, option, value) ==
    IF option = OptHttpproxy THEN {[o EXCEPT !.proxy = value]}
    ELSE IF option \in {OptUserShort, OptUser} THEN {[o EXCEPT !.user = value]}
    ELSE IF option \in {OptPasswordShort, OptPassword} THEN {[o EXCEPT !.password = value]}
    ELSE IF option = OptExclude THEN {[o EXCEPT !.exclude = value]}
    ELSE IF option = OptUnsyncedfolders THEN {[o EXCEPT !.unsyncedfolders = value]}
    ELSE IF option = OptDavpath THEN {[o EXCEPT !.davPath = value]}
    ELSE IF option = OptMaxSyncRetries
         THEN {[o EXCEPT !.restartTimes = toInt(value).value]}
    ELSE IF option = OptUplimit
         THEN {[o EXCEPT !.uplimit = v] : v \in LimitValues(toInt(value).value)}
    ELSE {[o EXCEPT !.downlimit = v] : v \in LimitValues(toInt(value).value)}

\* the branches that set a flag
SetSwitch(o, option) ==
    IF option \in {OptSilentShort, OptSilent} THEN [o EXCEPT !.silent = TRUE]
    ELSE IF option = OptTrust THEN [o EXCEPT !.trustSSL = TRUE]
    ELSE IF option = OptNetrc THEN [o EXCEPT !.useNetrc = TRUE]
    ELSE IF option = OptHidden THEN [o EXCEPT !.ignoreHiddenFiles = FALSE]
    ELSE IF option = OptNonInteractive THEN [o EXCEPT !.interactive = FALSE]
    ELSE o

HelpExitStatus == 0
VersionExitStatus == 0
MissingDirExitStatus == 1

\* help(): the usage text, then exit(0)
Help ==
    /\ printed' = "usage"
    /\ parseStatus' = HelpExitStatus
    /\ parsePc' = "exited"

\* showVersion(): the version text, then exit(0)
ShowVersion ==
    /\ printed' = "version"
    /\ parseStatus' = VersionExitStatus
    /\ parsePc' = "exited"

\* the argument count test, then target_url and source_dir are taken
ParseArgCount ==
    /\ parsePc = "start"
    /\ IF Len(args) < 3
       THEN /\ IF Len(args) >= 2 /\ args[2] \in {OptVersionShort, OptVersion}
               THEN ShowVersion
               ELSE Help
            /\ UNCHANGED <<args, it, cmdOptions>>
       ELSE /\ cmdOptions' = [cmdOptions EXCEPT
                                 !.target_url = args[Len(args)],
                                 !.source_dir = AppendSlash(args[Len(args) - 1])]
            /\ args' = SubSeq(args, 1, Len(args) - 2)
            /\ parsePc' = "source_dir"
            /\ UNCHANGED <<it, printed, parseStatus>>
    /\ UNCHANGED <<applicationProxy, driverVars, credVars>>

\* the source directory has to exist; the iterator skips the file name
CheckSourceDir ==
    /\ parsePc = "source_dir"
    /\ \E exists \in (IF cmdOptions.source_dir = <<Slash>> THEN {TRUE} ELSE BOOLEAN) :
          IF ~exists
          THEN /\ printed' = "diagnostic"
               /\ parseStatus' = MissingDirExitStatus
               /\ parsePc' = "exited"
               /\ UNCHANGED <<it, cmdOptions>>
          ELSE /\ cmdOptions' = [cmdOptions EXCEPT
                                    !.source_dir = absoluteFilePath(cmdOptions.source_dir)]
               /\ it' = IF Len(args) >= 1 THEN 2 ELSE 1
               /\ parsePc' = "loop"
               /\ UNCHANGED <<printed, parseStatus>>
    /\ UNCHANGED <<args, applicationProxy, driverVars, credVars>>

\* one turn of while (it.hasNext())
ParseOption ==
    /\ parsePc = "loop"
    /\ it <= Len(args)
    /\ LET option == args[it]
       IN  IF option \in ValueOptions
           THEN IF it + 1 > Len(args)
                THEN \* it.peekNext() behind the last argument is undefined
                     \E outcome \in {"usage", "crashed"} :
                        /\ IF outcome = "usage"
                           THEN Help
                           ELSE /\ parsePc' = "crashed"
                                /\ UNCHANGED <<printed, parseStatus>>
                        /\ UNCHANGED <<it, cmdOptions>>
                ELSE IF ~startsWith(args[it + 1], Dash)
                THEN /\ cmdOptions' \in SetValue(cmdOptions, option, args[it + 1])
                     /\ it' = it + 2
                     /\ UNCHANGED <<parsePc, printed, parseStatus>>
                ELSE /\ Help
                     /\ UNCHANGED <<it, cmdOptions>>
           ELSE IF option \in SwitchOptions
           THEN /\ cmdOptions' = SetSwitch(cmdOptions, option)
                /\ it' = it + 1
                /\ UNCHANGED <<parsePc, printed, parseStatus>>
           ELSE /\ Help
                /\ UNCHANGED <<it, cmdOptions>>
    /\ UNCHANGED <<args, applicationProxy, driverVars, credVars>>

\* after the loop: an empty target_url or source_dir gives the usage text
ParseEnd ==
    /\ parsePc = "loop"
    /\ it > Len(args)
    /\ IF isEmpty(cmdOptions.target_url) \/ isEmpty(cmdOptions.source_dir)
       THEN /\ Help
            /\ UNCHANGED <<args, it>>
       ELSE /\ parsePc' = "parsed"
            /\ args' = <<>>
            /\ it' = 0
            /\ UNCHANGED <<printed, parseStatus>>
    /\ UNCHANGED <<cmdOptions, applicationProxy, driverVars, credVars>>

\* ------------------------------------------------------------------ proxy
\* no application proxy was set
DefaultProxy == [type |-> "DefaultProxy", host |-> <<>>, port |-> 0]

\* remove(0, 2) when the host starts with "//"
HostOf(segment) ==
    IF startsWith(segment, <<Slash, Slash>>) THEN SubSeq(segment, 3, Len(segment))
    ELSE segment

\* QNetworkProxy takes the port as a quint16
PortOf(n) == n % 2^16

\* if (!options.proxy.isNull()): split(':'), three parts or qFatal
ConfigureProxy ==
    /\ pc = "proxy"
    /\ IF ~isNull(cmdOptions.proxy)
       THEN LET pList == Split(cmdOptions.proxy, ":")
            IN  IF Len(pList) = 3
                THEN /\ applicationProxy' =
                           [type |-> "HttpProxy", host |-> HostOf(pList[2]),
                            port |-> PortOf(toInt(pList[3]).value)]
                     /\ pc' = "capabilities"
                ELSE /\ pc' = "proxy_fatal"
                     /\ UNCHANGED applicationProxy
       ELSE /\ pc' = "capabilities"
            /\ UNCHANGED applicationProxy
    /\ UNCHANGED <<inputVars, bootstrap, inflight, frames, syncLocals, blackList,
                   engineVars, retval, exitStatus, counters, credVars, parseVars>>

\* ------------------------------------------------------- setup of the runs
SourceDir == <<"d">>
TargetUrl == <<"u">>

\* parseOptions has returned for a command line of options, directory and url
SetupWith(proxy) ==
    /\ parsePc = "parsed"
    /\ args = <<>>
    /\ it = 0
    /\ printed = "none"
    /\ parseStatus = Unset
    /\ cmdOptions = [DefaultOptions EXCEPT
                        !.target_url = TargetUrl,
                        !.source_dir = absoluteFilePath(AppendSlash(SourceDir)),
                        !.restartTimes = options.restartTimes,
                        !.uplimit = options.uplimit,
                        !.downlimit = options.downlimit,
                        !.exclude = options.exclude,
                        !.unsyncedfolders = options.unsyncedfolders,
                        !.user = optUser,
                        !.password = optPassword,
                        !.useNetrc = useNetrc,
                        !.interactive = interactive,
                        !.proxy = proxy]
    /\ applicationProxy = DefaultProxy

\* the same without --httpproxy
SetupDone == SetupWith(Null)
\* ------------------------------------------------------------------- Init
CredResolved ==
    /\ credPc = "done"
    /\ urlUser = "" /\ urlPassword = ""
    /\ optUser = "user" /\ optPassword = "secret"
    /\ useNetrc = FALSE /\ interactive = FALSE
    /\ netrcPair = <<FALSE, "", "">>
    /\ typedUser = "" /\ typedPassword = ""
    /\ user = "user" /\ password = "secret"

DriverState(limits, converges, lists, files, olds, excludes, systemExists) ==
    /\ options \in [restartTimes : limits, exclude : excludes,
                    unsyncedfolders : lists, uplimit : {0}, downlimit : {0}]
    /\ fileContent \in (IF options.unsyncedfolders = "" THEN {<<>>} ELSE files)
    /\ systemExcludeExists \in systemExists
    /\ convergeAt \in converges
    /\ blackList \in olds
    /\ bootstrap = [capabilities |-> "idle", user |-> "idle"]
    /\ inflight = {}
    /\ frames = <<>>
    /\ selectiveSyncList = <<>>
    /\ scheduledCalls = EmptyBag
    /\ excludeFiles = <<>>
    /\ anotherSyncNeeded = NoFollowUpSync
    /\ passes = 0
    /\ passResults = <<>>
    /\ retval = Unset
    /\ exitStatus = Unset
    /\ listFile = "none"
    /\ fixup = "none"
    /\ oldBlackList = blackList
    /\ excludesLoaded = "none"
    /\ networkLimits = <<>>
    /\ listReads = 0
    /\ fixupCalls = 0

\* main() is about to ask for the capabilities
InitDriver(limits, converges, lists, files, olds, excludes, systemExists) ==
    /\ pc = "capabilities"
    /\ DriverState(limits, converges, lists, files, olds, excludes, systemExists)

\* --------------------------------------------------------------- bootstrap
\* JsonApiJob ocs/v1.php/cloud/capabilities: job->start(); loop.exec()
StartCapabilitiesJob ==
    /\ pc = "capabilities"
    /\ pc' = "capabilities_wait"
    /\ bootstrap' = [bootstrap EXCEPT !.capabilities = "inflight"]
    /\ inflight' = inflight \cup {CapabilitiesJob}
    /\ UNCHANGED <<inputVars, frames, syncLocals, blackList, engineVars, retval,
                   exitStatus, counters, credVars, setupVars>>

\* the reply arrives and ends loop.exec(); job->reply()->error() is examined
CapabilitiesReply ==
    /\ pc = "capabilities_wait"
    /\ inflight' = JobFinished(inflight, CapabilitiesJob)
    /\ \E networkError \in BOOLEAN :
          /\ bootstrap' = [bootstrap EXCEPT
                              !.capabilities = IF networkError THEN "error" ELSE "ok"]
          /\ IF ConnectionFailed(networkError)
             THEN /\ pc' = "exited"
                  /\ exitStatus' = EXIT_FAILURE
             ELSE /\ pc' = "user"
                  /\ UNCHANGED exitStatus
    /\ UNCHANGED <<inputVars, frames, syncLocals, blackList, engineVars, retval,
                   counters, credVars, setupVars>>

\* JsonApiJob ocs/v1.php/cloud/user: job->start(); loop.exec()
StartUserJob ==
    /\ pc = "user"
    /\ pc' = "user_wait"
    /\ bootstrap' = [bootstrap EXCEPT !.user = "inflight"]
    /\ inflight' = inflight \cup {UserJob}
    /\ UNCHANGED <<inputVars, frames, syncLocals, blackList, engineVars, retval,
                   exitStatus, counters, credVars, setupVars>>

\* the locals of a sync() that was just entered
EnterSync ==
    /\ selectiveSyncList' = <<>>
    /\ scheduledCalls' = EmptyBag
    /\ excludeFiles' = <<>>
    /\ listFile' = "none"
    /\ fixup' = "none"
    /\ oldBlackList' = blackList
    /\ excludesLoaded' = "none"
    /\ networkLimits' = <<>>

\* the reply arrives and ends loop.exec(); its error state is not examined and
\* main() goes on to sync(ctx, 0)
UserReply ==
    /\ pc = "user_wait"
    /\ inflight' = JobFinished(inflight, UserJob)
    /\ \E networkError \in BOOLEAN :
          bootstrap' = [bootstrap EXCEPT !.user = IF networkError THEN "error" ELSE "ok"]
    /\ frames' = <<[restartCount |-> 0, resultCode |-> Unset]>>
    /\ EnterSync
    /\ pc' = "read_list"
    /\ UNCHANGED <<inputVars, blackList, engineVars, retval, exitStatus, counters,
                   credVars, setupVars>>

\* ------------------------------------------------------------------ sync()
\* the list of unsynced folders is read from the file and normalised
ReadUnsyncedFolders ==
    /\ pc = "read_list"
    /\ IF ListFileGiven(options.unsyncedfolders)
       THEN \E opens \in BOOLEAN :
               IF opens
               THEN /\ selectiveSyncList' = ParseUnsyncedFolders(fileContent)
                    /\ listFile' = "opened"
                    /\ listReads' = listReads + 1
               ELSE /\ listFile' = "failed"
                    /\ UNCHANGED <<selectiveSyncList, listReads>>
       ELSE UNCHANGED <<selectiveSyncList, listFile, listReads>>
    /\ pc' = "fixup"
    /\ UNCHANGED <<inputVars, bootstrap, inflight, frames, scheduledCalls, excludeFiles, fixup,
                   oldBlackList, excludesLoaded, networkLimits, blackList, engineVars, retval,
                   exitStatus, fixupCalls, credVars, setupVars>>

\* if (!selectiveSyncList.empty()) selectiveSyncFixup(&db, selectiveSyncList)
SelectiveSyncFixup ==
    /\ pc = "fixup"
    /\ IF FixupWanted(selectiveSyncList)
       THEN /\ fixupCalls' = fixupCalls + 1
            /\ \E dbOpens \in BOOLEAN, ok \in BOOLEAN :
                  IF ~dbOpens
                  THEN /\ fixup' = "dbfail"
                       /\ UNCHANGED <<blackList, scheduledCalls>>
                  ELSE LET oldBlackListSet == IF ok THEN SeqToSet(blackList) ELSE {}
                           blackListSet == SeqToSet(selectiveSyncList)
                       IN  /\ fixup' = IF ok THEN "read" ELSE "readfail"
                           /\ IF OldListRead(ok)
                              THEN /\ scheduledCalls' =
                                         SetToBag(Changes(oldBlackListSet, blackListSet))
                                   /\ blackList' =
                                         ListToPersist(blackList, selectiveSyncList)
                              ELSE UNCHANGED <<blackList, scheduledCalls>>
       ELSE UNCHANGED <<fixup, fixupCalls, blackList, scheduledCalls>>
    /\ pc' = "excludes"
    /\ UNCHANGED <<inputVars, bootstrap, inflight, frames, selectiveSyncList, excludeFiles,
                   listFile, oldBlackList, excludesLoaded, networkLimits, engineVars, retval,
                   exitStatus, listReads,
                   credVars, setupVars>>

\* the engine is given the network limits and the exclude files
AddExcludeFiles ==
    /\ pc = "excludes"
    /\ networkLimits' = <<options.uplimit, options.downlimit>>
    /\ excludeFiles' = ExcludeFilePaths(options.exclude, systemExcludeExists)
    /\ pc' = "reload"
    /\ UNCHANGED <<inputVars, bootstrap, inflight, frames, selectiveSyncList, scheduledCalls,
                   listFile, fixup, oldBlackList, excludesLoaded, blackList,
                   engineVars, retval, exitStatus, counters, credVars, setupVars>>

\* reloadExcludeFiles(); qFatal when it fails, else startSync is queued
ReloadExcludeFiles ==
    /\ pc = "reload"
    /\ \E loaded \in BOOLEAN :
          /\ excludesLoaded' = IF loaded THEN "loaded" ELSE "failed"
          /\ pc' = IF ReloadFailureFatal(loaded) THEN "aborted" ELSE "queued"
    /\ UNCHANGED <<inputVars, bootstrap, inflight, frames, selectiveSyncList,
                   scheduledCalls, excludeFiles, listFile, fixup, oldBlackList,
                   networkLimits, blackList, engineVars, retval, exitStatus, counters, credVars, setupVars>>

\* qApp->exec() delivers the queued startSync
StartSync ==
    /\ pc = "queued"
    /\ passes' = passes + 1
    /\ inflight' = inflight \cup {SyncPass(passes + 1)}
    /\ pc' = "running"
    /\ UNCHANGED <<inputVars, bootstrap, frames, syncLocals, blackList,
                   anotherSyncNeeded, passResults, retval, exitStatus, counters,
                   credVars, setupVars>>

\* the engine emits finished(result); qApp->exit(code) ends qApp->exec()
EngineFinished ==
    /\ pc = "running"
    /\ inflight' = JobFinished(inflight, SyncPass(passes))
    /\ \E result \in BOOLEAN :
          /\ passResults' = Append(passResults, result)
          /\ frames' = [frames EXCEPT ![Len(frames)].resultCode = ExitCode(result)]
    /\ anotherSyncNeeded' = IF passes < convergeAt THEN FollowUp ELSE NoFollowUpSync
    /\ pc' = "after_exec"
    /\ UNCHANGED <<inputVars, bootstrap, syncLocals, blackList, passes, retval,
                   exitStatus, counters, credVars, setupVars>>

\* the follow-up test after qApp->exec(): restart, or return resultCode
FollowUpCheck ==
    /\ pc = "after_exec"
    /\ IF /\ FollowUpRequired(anotherSyncNeeded)
          /\ RestartAllowed(top.restartCount, options.restartTimes)
       THEN /\ frames' = Append(frames, [restartCount |-> top.restartCount + 1,
                                         resultCode |-> Unset])
            /\ EnterSync
            /\ pc' = "read_list"
            /\ UNCHANGED retval
       ELSE /\ retval' = top.resultCode
            /\ frames' = SubSeq(frames, 1, Len(frames) - 1)
            /\ pc' = "return"
            /\ UNCHANGED syncLocals
    /\ UNCHANGED <<inputVars, bootstrap, inflight, blackList, engineVars, exitStatus, counters,
                   credVars, setupVars>>

\* a sync() that restarted returns what the restarted sync() returned
SyncReturn ==
    /\ pc = "return"
    /\ frames # <<>>
    /\ retval' = ReturnOfRestart(retval, top.resultCode)
    /\ frames' = SubSeq(frames, 1, Len(frames) - 1)
    /\ UNCHANGED <<pc, inputVars, bootstrap, inflight, syncLocals, blackList, engineVars,
                   exitStatus, counters, credVars, setupVars>>

\* main() returns what sync(ctx, 0) returned
MainReturn ==
    /\ pc = "return"
    /\ frames = <<>>
    /\ exitStatus' = retval
    /\ pc' = "exited"
    /\ UNCHANGED <<inputVars, bootstrap, inflight, frames, syncLocals, blackList, engineVars,
                   retval, counters, credVars, setupVars>>

Next ==
    \/ StartCapabilitiesJob
    \/ CapabilitiesReply
    \/ StartUserJob
    \/ UserReply
    \/ ReadUnsyncedFolders
    \/ SelectiveSyncFixup
    \/ AddExcludeFiles
    \/ ReloadExcludeFiles
    \/ StartSync
    \/ EngineFinished
    \/ FollowUpCheck
    \/ SyncReturn
    \/ MainReturn

\* the driver with every retry limit, one list file and one old blacklist
Init ==
    /\ InitDriver(RetryLimits, 1..MaxConverge, {"", ListFile}, {ExampleFile},
                  {ExampleOld},
                  {"", UserExcludeFile}, BOOLEAN)
    /\ CredResolved
    /\ SetupDone

Spec == Init /\ [][Next]_vars

\* the driver with every list file and old blacklist, few restarts, and an
\* engine that asks for a follow-up until the retry limit is reached
InitRecon ==
    /\ InitDriver(0..MaxReconRetry, {MaxReconRetry + 1}, {"", ListFile},
                  FileContents(MaxLines),
                  OldLists(MaxOld), {""}, {TRUE})
    /\ CredResolved
    /\ SetupDone

SpecRecon == InitRecon /\ [][Next]_vars

\* runs up to the reading of the list file, for every list file of the bound
InitList ==
    /\ InitDriver({DefaultRestartTimes}, {1}, {ListFile},
                  ListFileContents(MaxListLines) \cup {DocumentsFile},
                  {<<>>}, {""}, {TRUE})
    /\ CredResolved
    /\ SetupDone

NextList ==
    \/ StartCapabilitiesJob
    \/ CapabilitiesReply
    \/ StartUserJob
    \/ UserReply
    \/ ReadUnsyncedFolders

SpecList == InitList /\ [][NextList]_vars
\* --------------------------------------------------- credential resolution
\* main(): user and password from the URL, the options, netrc and the prompt
UrlUsers == {"", "urluser"}
UrlPasswords == {"", "urlpass"}
OptUsers == {"", "other"}
OptPasswords == {"", "optpass"}
NetrcLogins == {"", "netrcuser"}
NetrcPasswords == {"", "netrcpass"}
TypedUsers == {"", "typeduser"}
TypedPasswords == {"", "typedpass"}

InitCred ==
    /\ credPc = "url"
    /\ urlUser \in UrlUsers /\ urlPassword \in UrlPasswords
    /\ optUser \in OptUsers /\ optPassword \in OptPasswords
    /\ useNetrc \in BOOLEAN /\ interactive \in BOOLEAN
    /\ netrcPair = <<FALSE, "", "">>
    /\ typedUser = "" /\ typedPassword = ""
    /\ user = "" /\ password = ""
    /\ InitDriver({DefaultRestartTimes}, {1}, {""}, {<<>>}, {<<>>}, {""}, {TRUE})
    /\ SetupDone

\* QString user = url.userName(); QString password = url.password();
CredFromUrl ==
    /\ credPc = "url"
    /\ user' = urlUser
    /\ password' = urlPassword
    /\ credPc' = "options"
    /\ UNCHANGED <<urlUser, urlPassword, optUser, optPassword, useNetrc, interactive,
                   netrcPair, typedUser, typedPassword, driverVars, setupVars>>

\* --user and --password, when not empty
CredFromOptions ==
    /\ credPc = "options"
    /\ user' = IF optUser # "" THEN optUser ELSE user
    /\ password' = IF optPassword # "" THEN optPassword ELSE password
    /\ credPc' = "netrc"
    /\ UNCHANGED <<urlUser, urlPassword, optUser, optPassword, useNetrc, interactive,
                   netrcPair, typedUser, typedPassword, driverVars, setupVars>>

\* -n: when the netrc file parses, the pair found for the host is taken
CredFromNetrc ==
    /\ credPc = "netrc"
    /\ IF useNetrc
       THEN \E parsed \in BOOLEAN, login \in NetrcLogins, pass \in NetrcPasswords :
               IF parsed
               THEN /\ netrcPair' = <<TRUE, login, pass>>
                    /\ user' = login
                    /\ password' = pass
               ELSE UNCHANGED <<netrcPair, user, password>>
       ELSE UNCHANGED <<netrcPair, user, password>>
    /\ credPc' = "prompt"
    /\ UNCHANGED <<urlUser, urlPassword, optUser, optPassword, useNetrc, interactive,
                   typedUser, typedPassword, driverVars, setupVars>>

\* the prompts, when interactive, for the fields that are still empty
CredFromPrompt ==
    /\ credPc = "prompt"
    /\ IF interactive
       THEN \E u \in TypedUsers, p \in TypedPasswords :
               /\ typedUser' = IF user = "" THEN u ELSE ""
               /\ user' = IF user = "" THEN u ELSE user
               /\ typedPassword' = IF password = "" THEN p ELSE ""
               /\ password' = IF password = "" THEN p ELSE password
       ELSE UNCHANGED <<typedUser, typedPassword, user, password>>
    /\ credPc' = "done"
    /\ UNCHANGED <<urlUser, urlPassword, optUser, optPassword, useNetrc, interactive,
                   netrcPair, driverVars, setupVars>>

NextCred ==
    \/ CredFromUrl
    \/ CredFromOptions
    \/ CredFromNetrc
    \/ CredFromPrompt

SpecCred == InitCred /\ [][NextCred]_vars

\* ------------------------------------------------- runs of parseOptions
ProgramName == <<"c", "m", "d">>
OptUnknown == <<"-", "-", "x">>

ArgTokens ==
    {OptVersionShort, OptSilentShort, OptUser, OptMaxSyncRetries, OptUnknown,
     <<>>, <<"7">>, SourceDir, TargetUrl}

ArgLists(n) == {<<ProgramName>> \o s : s \in BoundedSeq(ArgTokens, n)}

\* the credentials are resolved after parseOptions
CredPending ==
    /\ credPc = "url"
    /\ urlUser = "" /\ urlPassword = ""
    /\ optUser = "" /\ optPassword = ""
    /\ useNetrc = FALSE /\ interactive = TRUE
    /\ netrcPair = <<FALSE, "", "">>
    /\ typedUser = "" /\ typedPassword = ""
    /\ user = "" /\ password = ""

InitParse ==
    /\ pc = "parse"
    /\ DriverState({DefaultRestartTimes}, {1}, {""}, {<<>>}, {<<>>}, {""}, {TRUE})
    /\ CredPending
    /\ args \in ArgLists(MaxArgs)
    /\ it = 0
    /\ parsePc = "start"
    /\ cmdOptions = DefaultOptions
    /\ printed = "none"
    /\ parseStatus = Unset
    /\ applicationProxy = DefaultProxy

NextParse ==
    \/ ParseArgCount
    \/ CheckSourceDir
    \/ ParseOption
    \/ ParseEnd

SpecParse == InitParse /\ [][NextParse]_vars

\* ------------------------------------------------ runs with --httpproxy
ProxyChars == {"h", ":", "/", "8"}

ProxyStrings(n) == BoundedSeq(ProxyChars, n)

InitProxy ==
    /\ pc = "proxy"
    /\ DriverState({1}, {2}, {""}, {<<>>}, {<<>>}, {""}, {TRUE})
    /\ CredResolved
    /\ \E proxy \in ProxyStrings(MaxProxyLen) \cup {Null} : SetupWith(proxy)

NextProxy ==
    \/ ConfigureProxy
    \/ Next

SpecProxy == InitProxy /\ [][NextProxy]_vars

\* ------------------------------- runs from the command line to the exit
\* numbers given to --max-sync-retries, --uplimit and --downlimit: small ones,
\* one below zero (behind a blank, as an argument may not start with '-'),
\* one that is no number and one whose thousandfold is no int
NumberTokens ==
    {<<"0">>, <<"2">>, <<" ", "-", "1">>, <<"x">>, <<"3", "0", "0", "0", "0", "0", "0">>}

RunTokens == {OptMaxSyncRetries, OptUplimit, OptDownlimit} \cup NumberTokens

RunArgLists(n) ==
    {<<ProgramName>> \o s \o <<SourceDir, TargetUrl>> : s \in BoundedSeq(RunTokens, n)}

\* main() between parseOptions and the proxy: the credentials are typed in (no
\* user in the url, the options or netrc), and the options are what sync()
\* gets as ctx.options
BuildContext ==
    /\ pc = "parse"
    /\ parsePc = "parsed"
    /\ credPc = "url"
    /\ options' = [restartTimes |-> cmdOptions.restartTimes,
                   exclude |-> IF isEmpty(cmdOptions.exclude) THEN "" ELSE UserExcludeFile,
                   unsyncedfolders |->
                       IF isEmpty(cmdOptions.unsyncedfolders) THEN "" ELSE ListFile,
                   uplimit |-> cmdOptions.uplimit,
                   downlimit |-> cmdOptions.downlimit]
    /\ \E u \in TypedUsers \ {""}, p \in TypedPasswords \ {""} :
          /\ typedUser' = u /\ user' = u
          /\ typedPassword' = p /\ password' = p
    /\ credPc' = "done"
    /\ pc' = "proxy"
    /\ UNCHANGED <<fileContent, systemExcludeExists, convergeAt, bootstrap, inflight,
                   frames, syncLocals, blackList, engineVars, retval, exitStatus,
                   counters, urlUser, urlPassword, optUser, optPassword, useNetrc,
                   interactive, netrcPair, setupVars>>

InitRun ==
    /\ pc = "parse"
    /\ DriverState({DefaultRestartTimes}, {1, MaxConverge}, {""}, {<<>>}, {<<>>}, {""},
                   {TRUE})
    /\ CredPending
    /\ args \in RunArgLists(MaxRunArgs)
    /\ it = 0
    /\ parsePc = "start"
    /\ cmdOptions = DefaultOptions
    /\ printed = "none"
    /\ parseStatus = Unset
    /\ applicationProxy = DefaultProxy

NextRun ==
    \/ NextParse
    \/ BuildContext
    \/ NextProxy

SpecRun == InitRun /\ [][NextRun]_vars

\* the driver from the bootstrap on, with every retry limit and every engine,
\* when every step that can be taken is eventually taken: the program runs on,
\* and every bootstrap request and every engine pass signals its completion
InitRetry ==
    /\ InitDriver(RetryLimits, 1..MaxConverge, {"", ListFile}, {ExampleFile},
                  {ExampleOld}, {""}, {TRUE})
    /\ CredResolved
    /\ SetupDone

SpecRetryFair == InitRetry /\ [][Next]_vars /\ WF_vars(Next)
\* ================================================================== claims
\* positions of a sync() whose engine has not been started yet
BeforeStart == {"read_list", "fixup", "excludes", "reload", "queued"}

\* positions of a sync() after its exclude files were registered
Registered == {"reload", "queued", "running", "after_exec"}

\* number of sync() calls made so far
Invocations == IF pc \in {"return", "exited"} THEN passes ELSE Len(frames)

\* the running sync() is a restart
Restarted == pc \in BeforeStart /\ Len(frames) > 1

\* C1: with an engine that asks for a follow-up after each of its first
\* convergeAt - 1 passes and for none after pass convergeAt, and a retry limit
\* restartTimes >= 0, the engine is never started more than
\* min(convergeAt, restartTimes + 1) times, and a run that is through with its
\* passes has started it exactly that often (restartTimes + 1 times when
\* convergeAt - 1 > restartTimes).
C1_PassCount ==
    options.restartTimes >= 0 =>
        /\ passes <= Min(convergeAt, options.restartTimes + 1)
        /\ (pc \in {"return", "exited"} /\ passes > 0) =>
              /\ passes = Min(convergeAt, options.restartTimes + 1)
              /\ (convergeAt - 1 > options.restartTimes =>
                     passes = options.restartTimes + 1)

C1_Witness ==
    /\ pc = "exited"
    /\ options.restartTimes = DefaultRestartTimes
    /\ convergeAt - 1 > options.restartTimes
    /\ passes = DefaultRestartTimes + 1

\* C2: once the passes are over, the value handed up the sync() calls, and the
\* exit status of the process, is the exit code of the result of the last pass
\* run, whether the loop ended without follow-up or by the retry limit.
C2_ExitStatusOfLastPass ==
    (pc \in {"return", "exited"} /\ passes > 0) =>
        LET last == passResults[Len(passResults)]
            code == IF last THEN EXIT_SUCCESS ELSE EXIT_FAILURE
        IN  /\ Len(passResults) = passes
            /\ retval = code
            /\ (pc = "exited" => exitStatus = code)

C2_Witness ==
    /\ pc = "exited"
    /\ Len(passResults) >= 2
    /\ passResults[1] = FALSE
    /\ passResults[Len(passResults)] = TRUE
    /\ anotherSyncNeeded = FollowUp
    /\ exitStatus = EXIT_SUCCESS

\* C3 as stated: a restarted sync() exists only if the number of passes
\* already attempted is strictly less than the retry limit.
C3_RestartBelowLimitAsStated ==
    Restarted => passes < options.restartTimes

\* C3, amended: a restarted sync() exists only after a follow-up signal and if
\* the number of restarts already made (the passes attempted minus one) was
\* strictly less than the retry limit, that is passes attempted <= limit; and
\* a loop that stopped in spite of a follow-up signal had used up the limit.
C3_RestartWithinLimit ==
    /\ Restarted =>
          /\ anotherSyncNeeded = FollowUp
          /\ top.restartCount = passes
          /\ passes - 1 < options.restartTimes
    /\ (pc \in {"return", "exited"} /\ passes > 0 /\ anotherSyncNeeded = FollowUp) =>
          passes - 1 >= options.restartTimes

C3_Witness ==
    /\ Restarted
    /\ options.restartTimes = DefaultRestartTimes
    /\ passes = options.restartTimes

\* C4: after a reconciliation that read the old blacklist, every path that is
\* in exactly one of the old blacklist and the new list was given to
\* schedulePathForRemoteDiscovery exactly once, and no other path was; when
\* the two are equal as sets nothing was scheduled.
C4_ScheduledSymmetricDifference ==
    fixup = "read" =>
        LET old == SeqToSet(oldBlackList)
            new == SeqToSet(selectiveSyncList)
        IN  /\ \A p \in old \cup new \cup BagToSet(scheduledCalls) :
                  CopiesIn(p, scheduledCalls) = IF (p \in old) # (p \in new) THEN 1 ELSE 0
            /\ (old = new => scheduledCalls = EmptyBag)

C4_Witness ==
    /\ fixup = "read"
    /\ oldBlackList = <<PathB, PathC>>
    /\ selectiveSyncList = <<PathA, PathA>>
    /\ scheduledCalls = SetToBag({PathA, PathB, PathC})

\* C5: after a reconciliation that read the old blacklist, the persisted
\* blacklist is the new list.
C5_PersistedIsNewList ==
    fixup = "read" => blackList = selectiveSyncList

C5_Witness ==
    /\ fixup = "read"
    /\ oldBlackList = <<PathA, PathB>>
    /\ blackList = <<PathB, PathC>>
    /\ scheduledCalls = SetToBag({PathA, PathC})

\* C6 as stated: in a run the list file is read once and the reconciliation
\* called once, whatever the number of passes.
C6_ReconciledOnceAsStated ==
    listReads <= 1 /\ fixupCalls <= 1

\* C6, amended: every sync() call, the first one and every restart, reads the
\* list file (when one is given) and calls the reconciliation (when the list
\* is not empty) at most once and before it starts its pass; the reads and the
\* reconciliations of a run are at most as many as its sync() calls.
C6_ReconciledOncePerCall ==
    /\ listReads <= Invocations
    /\ fixupCalls <= listReads
    /\ (pc \in (BeforeStart \ {"read_list"}) \cup {"running", "after_exec"}
          /\ options.unsyncedfolders # "") => listFile \in {"opened", "failed"}
    /\ (pc \in {"excludes", "reload", "queued", "running", "after_exec"}
          /\ selectiveSyncList # <<>>) => fixup # "none"
    /\ (pc = "read_list" => listFile = "none" /\ fixup = "none")

C6_Witness ==
    /\ pc = "running"
    /\ passes = 2
    /\ listReads = 2
    /\ fixupCalls = 2

\* C7: when the list file cannot be opened, the sync() call has no list, does
\* not call the reconciliation, schedules no path and leaves the persisted
\* blacklist as it was; it goes on to the exclude files, so that an abort can
\* only come from them.
C7_UnreadableListSkipsFixup ==
    listFile = "failed" =>
        /\ selectiveSyncList = <<>>
        /\ fixup = "none"
        /\ scheduledCalls = EmptyBag
        /\ blackList = oldBlackList
        /\ (pc = "aborted" => excludeFiles # <<>>)

C7_Witness ==
    /\ listFile = "failed"
    /\ pc = "running"
    /\ blackList = <<PathA, PathB>>
    /\ ParseUnsyncedFolders(fileContent) = <<PathC>>

\* C8: when the journal database does not open, or the old blacklist cannot
\* be read, the reconciliation schedules no path and leaves the persisted
\* blacklist as it was.
C8_UnreadableJournalUnchanged ==
    fixup \in {"dbfail", "readfail"} =>
        /\ scheduledCalls = EmptyBag
        /\ blackList = oldBlackList

C8_Witness ==
    /\ fixup = "readfail"
    /\ pc = "excludes"
    /\ blackList = <<PathA>>
    /\ selectiveSyncList = <<PathB, PathC>>

\* C9 as stated: the user and the password are what the URL, the options,
\* netrc (with -n) and the prompt (when interactive and the field is empty)
\* give in this order, a later source replacing the value only when its own
\* value is not empty.
C9_NonEmptyOverridesAsStated ==
    credPc = "done" =>
        LET u1 == IF optUser # "" THEN optUser ELSE urlUser
            p1 == IF optPassword # "" THEN optPassword ELSE urlPassword
            u2 == IF useNetrc /\ netrcPair[1] /\ netrcPair[2] # "" THEN netrcPair[2] ELSE u1
            p2 == IF useNetrc /\ netrcPair[1] /\ netrcPair[3] # "" THEN netrcPair[3] ELSE p1
            u3 == IF interactive /\ u2 = "" /\ typedUser # "" THEN typedUser ELSE u2
            p3 == IF interactive /\ p2 = "" /\ typedPassword # "" THEN typedPassword ELSE p2
        IN  user = u3 /\ password = p3

\* C10 as stated: the registered exclude files are the user file alone (user
\* file given, system file absent), both (user file given, system file
\* present), the system file alone (no user file, system file present) and
\* none (no user file, system file absent).
C10_ExcludeFilesAsStated ==
    pc \in Registered =>
        excludeFiles =
            IF options.exclude # ""
            THEN IF systemExcludeExists THEN <<options.exclude, SystemExcludeFile>>
                                        ELSE <<options.exclude>>
            ELSE IF systemExcludeExists THEN <<SystemExcludeFile>> ELSE <<>>

\* C10, amended: as stated, but without a user file the system file is
\* registered whether it is present or not.
C10_ExcludeFiles ==
    pc \in Registered =>
        /\ (options.exclude # "" /\ ~systemExcludeExists) =>
              excludeFiles = <<options.exclude>>
        /\ (options.exclude # "" /\ systemExcludeExists) =>
              excludeFiles = <<options.exclude, SystemExcludeFile>>
        /\ options.exclude = "" => excludeFiles = <<SystemExcludeFile>>

C10_Witness ==
    /\ pc = "reload"
    /\ options.exclude = ""
    /\ ~systemExcludeExists
    /\ excludeFiles = <<SystemExcludeFile>>


\* C11: whenever reloading the registered exclude files has failed in a
\* sync() call, the process is aborted, the engine was not started by that
\* call (the passes started are those of the earlier calls, one each) and no
\* pass is in flight; the aborted process takes no further step, so no later
\* pass is started either.
C11_ReloadFailureAborts ==
    excludesLoaded = "failed" =>
        /\ pc = "aborted"
        /\ passes = Len(frames) - 1
        /\ Len(passResults) = passes
        /\ inflight = {}

C11_Witness ==
    /\ pc = "aborted"
    /\ excludesLoaded = "failed"
    /\ passes = 0

\* C12: the identity request is issued only after the capabilities request
\* has completed, and a capabilities request that completed with a network
\* error leaves the process exited with failure status, the identity request
\* never issued, no sync() entered, no pass started and the journal as it was.
C12_CapabilitiesFirst ==
    /\ bootstrap.user # "idle" =>
          /\ bootstrap.capabilities \in {"ok", "error"}
          /\ CapabilitiesJob \notin inflight
    /\ bootstrap.capabilities = "error" =>
          /\ pc = "exited"
          /\ exitStatus = EXIT_FAILURE
          /\ bootstrap.user = "idle"
          /\ frames = <<>>
          /\ passes = 0
          /\ fixupCalls = 0
          /\ blackList = oldBlackList
          /\ scheduledCalls = EmptyBag

C12_Witness ==
    /\ bootstrap.capabilities = "error"
    /\ pc = "exited"
    /\ exitStatus = EXIT_FAILURE

\* C13 as stated: a sync pass is started only when the capabilities request
\* and the identity request have both completed without a network error.
C13_BothBootstrapRequestsAsStated ==
    passes > 0 => bootstrap.capabilities = "ok" /\ bootstrap.user = "ok"

\* C18 as stated: the process is aborted for an unreadable exclude list only
\* when no sync pass has been started in the run.
C18_AbortBeforeAnyPassAsStated ==
    pc = "aborted" => passes = 0

\* C18, amended: the exclude lists are loaded anew by every sync() call, so an
\* unreadable exclude list aborts the run before the pass of the call that
\* found it is started, possibly after the passes of the earlier calls: in the
\* aborted state the loading has failed, every earlier call has run exactly
\* one pass to completion, and the aborting call has started none.
C18_AbortBeforeOwnPass ==
    pc = "aborted" =>
        /\ excludesLoaded = "failed"
        /\ passes = Len(frames) - 1
        /\ Len(passResults) = passes
        /\ (passes > 0 => passes <= options.restartTimes)

C18_Witness ==
    /\ pc = "aborted"
    /\ passes >= 1

\* C19: while the engine is started or has run in a sync() call, the exclude
\* lists of that call are loaded and, when the list of unsynced folders is
\* not empty, the selective-sync reconciliation of that call has returned.
C19_SetupBeforeStartSync ==
    pc \in {"queued", "running", "after_exec"} =>
        /\ excludesLoaded = "loaded"
        /\ excludeFiles # <<>>
        /\ (ListFileGiven(options.unsyncedfolders) => listFile \in {"opened", "failed"})
        /\ (selectiveSyncList # <<>> => fixup \in {"read", "readfail", "dbfail"})

C19_Witness ==
    /\ pc = "running"
    /\ passes = 1
    /\ fixup = "read"
    /\ excludesLoaded = "loaded"

\* C20: at most one asynchronous operation is in flight at any time, the
\* operation in flight is the one the driver waits for, and a pass is in
\* flight only when all earlier passes have delivered their result.
C20_OneOperationInFlight ==
    /\ Cardinality(inflight) <= 1
    /\ CapabilitiesJob \in inflight <=> pc = "capabilities_wait"
    /\ UserJob \in inflight <=> pc = "user_wait"
    /\ \A n \in 1..(MaxConverge + 1) :
          SyncPass(n) \in inflight =>
              /\ pc = "running"
              /\ n = passes
              /\ Len(passResults) = n - 1
    /\ passes <= Len(passResults) + 1

C20_Witness ==
    /\ inflight = {SyncPass(2)}
    /\ Len(passResults) = 1
    /\ bootstrap.capabilities = "ok"

\* positions in the file content at which a line begins
LineStarts == {1} \cup {i + 1 : i \in {j \in DOMAIN fileContent : fileContent[j] = Newline}}

\* the line beginning at position s, without its line break
LineAt(s) ==
    LET ends == {j \in s..Len(fileContent) : fileContent[j] = Newline}
        last == IF ends = {} THEN Len(fileContent)
                ELSE (CHOOSE j \in ends : \A h \in ends : j <= h) - 1
    IN  SubSeq(fileContent, s, last)

Blank(line) == \A i \in DOMAIN line : line[i] \in {" ", "\t", "\r"}
Comment(line) == line # <<>> /\ line[1] = "#"

\* positions of the lines that are neither blank nor comments
KeptStarts == {s \in LineStarts : ~Blank(LineAt(s)) /\ ~Comment(LineAt(s))}

\* the i-th of them in file order
KeptLine(i) ==
    LineAt(CHOOSE s \in KeptStarts : Cardinality({t \in KeptStarts : t < s}) = i - 1)

\* C16: the list read from the file has one entry for each line that is
\* neither blank nor begins with '#', in file order; an entry is its line when
\* the line ends with '/', and its line followed by one '/' otherwise. The
\* contents "# comment\n\nDocuments\nShared/\n" give ["Documents/", "Shared/"].
C16_ParsedList ==
    listFile = "opened" =>
        /\ Len(selectiveSyncList) = Cardinality(KeptStarts)
        /\ \A i \in DOMAIN selectiveSyncList :
              LET line == KeptLine(i)
                  entry == selectiveSyncList[i]
              IN  IF line[Len(line)] = "/" THEN entry = line
                                           ELSE entry = line \o <<"/">>
        /\ fileContent = DocumentsFile =>
              selectiveSyncList =
                  << <<"D", "o", "c", "u", "m", "e", "n", "t", "s", "/">>,
                     <<"S", "h", "a", "r", "e", "d", "/">> >>

C16_Witness ==
    /\ listFile = "opened"
    /\ fileContent = DocumentsFile
    /\ Len(selectiveSyncList) = 2

\* C17: normalising a line twice gives what normalising it once gives, a line
\* that ends with '/' is its own normal form, every entry of the list read
\* from the file is its own normal form, and an entry ends with "//" only
\* when its line did.
C17_NormalizationIdempotent ==
    listFile = "opened" =>
        /\ \A s \in LineStarts :
              LET line == LineAt(s)
              IN  /\ AppendSlash(AppendSlash(line)) = AppendSlash(line)
                  /\ (line # <<>> /\ line[Len(line)] = "/") => AppendSlash(line) = line
        /\ \A i \in DOMAIN selectiveSyncList :
              LET entry == selectiveSyncList[i]
                  n == Len(entry)
              IN  /\ AppendSlash(entry) = entry
                  /\ (n >= 2 /\ entry[n - 1] = "/") => KeptLine(i) = entry

C17_Witness ==
    /\ listFile = "opened"
    /\ selectiveSyncList = << <<"A", "/">>, <<"/", "/">> >>
    /\ fileContent = <<"A", "/", "\n", "/", "/", "\n">>

\* C14 as stated: a process that parseOptions ended after the usage text or
\* the missing-directory diagnostic has a non-zero exit status, and one that
\* it ended with status zero has printed the version.
C14_UsageErrorsExitNonZeroAsStated ==
    parsePc = "exited" =>
        /\ printed \in {"usage", "diagnostic"} => parseStatus # 0
        /\ parseStatus = 0 => printed = "version"

\* number of ':' in the proxy string
ProxyColons == Cardinality({i \in DOMAIN cmdOptions.proxy : cmdOptions.proxy[i] = ":"})

\* the proxy string from its k-th ':' (or its start) to the next one (or its end)
ProxySegment(k) ==
    LET p == cmdOptions.proxy
        colons == {i \in DOMAIN p : p[i] = ":"}
        nth(m) == IF m = 0 THEN 0
                  ELSE IF m > Cardinality(colons) THEN Len(p) + 1
                  ELSE CHOOSE i \in colons : Cardinality({j \in colons : j < i}) = m - 1
    IN  SubSeq(p, nth(k - 1) + 1, nth(k) - 1)

\* C15 as stated: once the proxy string of --httpproxy has been looked at, a
\* string without exactly two ':' has ended the process before any bootstrap
\* request or pass; one with exactly two has given the proxy the host that is
\* its second segment without a leading "//" and the port that its third
\* segment writes.
C15_ProxyAsStated ==
    (pc # "proxy" /\ ~isNull(cmdOptions.proxy)) =>
        IF ProxyColons # 2
        THEN /\ pc = "proxy_fatal"
             /\ bootstrap = [capabilities |-> "idle", user |-> "idle"]
             /\ passes = 0
        ELSE LET second == ProxySegment(2)
                 third == ProxySegment(3)
             IN  /\ pc # "proxy_fatal"
                 /\ applicationProxy.host =
                       IF Len(second) >= 2 /\ second[1] = "/" /\ second[2] = "/"
                       THEN SubSeq(second, 3, Len(second)) ELSE second
                 /\ third # <<>>
                 /\ \A i \in DOMAIN third : IsDigit(third[i])
                 /\ applicationProxy.port = DigitsValue(third)

\* C21: after a pass, sync() restarts exactly when the engine signals a
\* follow-up and the restart count is below the retry limit, whatever the
\* result of the pass; after a failed pass without a follow-up signal it
\* returns EXIT_FAILURE without another pass, and that is the exit status of
\* the process.
C21_FailureAloneNoRestart ==
    /\ [][pc = "after_exec" =>
             LET failed == ~passResults[Len(passResults)]
                 restarts == Len(frames') > Len(frames)
             IN  /\ restarts <=> /\ anotherSyncNeeded # NoFollowUpSync
                                 /\ top.restartCount < options.restartTimes
                 /\ (failed /\ anotherSyncNeeded = NoFollowUpSync) =>
                        /\ pc' = "return"
                        /\ retval' = EXIT_FAILURE
                        /\ passes' = passes]_vars
    /\ [](/\ pc = "exited"
          /\ passes > 0
          /\ ~passResults[Len(passResults)]
          /\ anotherSyncNeeded = NoFollowUpSync
          => exitStatus = EXIT_FAILURE /\ passes = Len(passResults))

C21_Witness ==
    /\ pc = "exited"
    /\ passes = 1
    /\ passResults = <<FALSE>>
    /\ anotherSyncNeeded = NoFollowUpSync
    /\ options.restartTimes = DefaultRestartTimes
    /\ exitStatus = EXIT_FAILURE

\* C22: for every integer argument n of --uplimit or --downlimit the stored
\* limit is n * 1000 (no wrap-around, no truncation), a limit changes only
\* where its flag is parsed and is 0 before, and the limits handed to
\* setNetworkLimits are the stored ones.
C22_LimitsAsStated ==
    /\ [][(/\ parsePc = "loop"
           /\ it + 1 <= Len(args)
           /\ args[it] \in {OptUplimit, OptDownlimit}
           /\ toInt(args[it + 1]).ok
           /\ it' = it + 2)
          => LET n == toInt(args[it + 1]).value
                 limit == IF args[it] = OptUplimit
                          THEN cmdOptions'.uplimit
                          ELSE cmdOptions'.downlimit
             IN  limit % 1000 = 0 /\ limit \div 1000 = n]_vars
    /\ [][/\ cmdOptions'.uplimit # cmdOptions.uplimit
             => parsePc = "loop" /\ args[it] = OptUplimit
          /\ cmdOptions'.downlimit # cmdOptions.downlimit
             => parsePc = "loop" /\ args[it] = OptDownlimit]_vars
    /\ [](parsePc = "start" => cmdOptions.uplimit = 0 /\ cmdOptions.downlimit = 0)
    /\ [](networkLimits # <<>>
          => networkLimits = <<cmdOptions.uplimit, cmdOptions.downlimit>>)

\* C23: when the list file opens and the parsed list is empty (an empty file,
\* or only blank and '#' lines), the reconciliation is not called: the step
\* leaves the persisted blacklist and the scheduled paths as they are, so
\* that a non-empty blacklist stays unchanged through the call; no step of a
\* run replaces a non-empty persisted blacklist by the empty list.
C23_EmptyListKeepsBlacklist ==
    /\ [][(pc = "fixup" /\ listFile = "opened" /\ selectiveSyncList = <<>>)
          => /\ fixupCalls' = fixupCalls
             /\ fixup' = "none"
             /\ blackList' = blackList
             /\ scheduledCalls' = EmptyBag]_vars
    /\ [](listFile = "opened" /\ selectiveSyncList = <<>>
             /\ pc \notin {"read_list", "fixup"}
          => /\ fixup = "none"
             /\ blackList = oldBlackList
             /\ scheduledCalls = EmptyBag)
    /\ [][blackList # <<>> => blackList' # <<>>]_vars

C23_Witness ==
    /\ pc = "running"
    /\ listFile = "opened"
    /\ fileContent = FileOf(<< <<"#", "A">> >>)
    /\ selectiveSyncList = <<>>
    /\ oldBlackList = <<PathA, PathB>>
    /\ blackList = <<PathA, PathB>>
    /\ fixupCalls = 0

\* the list that the unchanged list file supplies to every sync() call
SuppliedList == ParseUnsyncedFolders(fileContent)

\* C24: the reconciliation is idempotent across the passes of a run. A
\* reconciliation that read the old blacklist leaves the supplied list
\* persisted; from then on every step keeps it persisted, and a
\* reconciliation that finds it persisted has an empty symmetric difference
\* and schedules no path for rediscovery.
C24_ReconciliationIdempotent ==
    /\ [][pc = "fixup" /\ fixup' = "read" => blackList' = SuppliedList]_vars
    /\ [][blackList = SuppliedList => blackList' = SuppliedList]_vars
    /\ [][(pc = "fixup" /\ blackList = SuppliedList)
          => /\ scheduledCalls' = EmptyBag
             /\ fixup' = "read" =>
                   LET old == SeqToSet(blackList)
                       new == SeqToSet(selectiveSyncList)
                   IN  (old \ new) \cup (new \ old) = {}]_vars
    /\ [](Len(frames) > 1 /\ fixup = "read" /\ oldBlackList = SuppliedList
          => scheduledCalls = EmptyBag /\ blackList = SuppliedList)

C24_Witness ==
    /\ Len(frames) = 2
    /\ fixup = "read"
    /\ fixupCalls = 2
    /\ oldBlackList = <<PathB, PathA>>
    /\ selectiveSyncList = <<PathB, PathA>>
    /\ blackList = <<PathB, PathA>>
    /\ scheduledCalls = EmptyBag

\* the process has ended: main() returned or exit() was called, or qFatal
\* aborted it
Terminated == pc \in {"exited", "aborted"}

\* the restart count of every sync() call on the stack is the number of
\* restarts before it, and a restart adds one to it
RestartCountsByOne ==
    /\ [](\A i \in DOMAIN frames : frames[i].restartCount = i - 1)
    /\ [][Len(frames') > Len(frames) /\ frames # <<>>
          => frames'[Len(frames')].restartCount = top.restartCount + 1]_vars

\* a retry limit of 0 or less gives one pass, and no restart
OnePassWithoutRetries ==
    [](options.restartTimes <= 0
       => /\ passes <= 1
          /\ Len(frames) <= 1
          /\ pc = "return" => passes = 1)

\* C25 as stated: when every bootstrap request and every engine pass signals
\* its completion, a run that reached the bootstrap terminates, for every
\* retry limit and also when the engine asks for a follow-up after every
\* pass; a limit of 0 or less gives exactly one pass; the restart count grows
\* by one per restart and never exceeds the retry limit.
C25_TerminatesWithinLimitAsStated ==
    /\ (pc = "capabilities" ~> Terminated)
    /\ OnePassWithoutRetries
    /\ RestartCountsByOne
    /\ [](\A i \in DOMAIN frames : frames[i].restartCount <= options.restartTimes)

\* C25, amended: the same, where the restart count never exceeds the retry
\* limit or 0, whichever is larger (the first call has restart count 0 also
\* under a negative limit), and a terminated run left an exit status unless
\* qFatal aborted it.
C25_TerminatesWithinLimit ==
    /\ (pc = "capabilities" ~> Terminated)
    /\ [](pc = "exited" => exitStatus \in {EXIT_SUCCESS, EXIT_FAILURE})
    /\ OnePassWithoutRetries
    /\ RestartCountsByOne
    /\ [](\A i \in DOMAIN frames :
             frames[i].restartCount <= IF options.restartTimes > 0
                                       THEN options.restartTimes ELSE 0)

C25_Witness ==
    /\ pc = "exited"
    /\ options.restartTimes = 0 - MaxNegRetry
    /\ passes = 1
    /\ anotherSyncNeeded = FollowUp
    /\ convergeAt = MaxConverge
    /\ exitStatus = EXIT_SUCCESS
====
